---- MODULE Spec2Model ----
(***************************************************************************)
(* ConditionEvaluator of the summary widget: the operation registry, the   *)
(* evaluation of one condition against the active cache (executeCondition) *)
(* and the aggregation of a list of conditions (execute), together with    *)
(* the live/test cache toggle.                                             *)
(*                                                                         *)
(* JavaScript values are records [t, k, n, s]: t is the result of typeof,  *)
(* k tells the values of one type apart, n is the magnitude of a finite    *)
(* number and s the characters of a string (a sequence of one-character    *)
(* strings).                                                               *)
(***************************************************************************)
EXTENDS Integers, Sequences, FiniteSets, TLC

VARIABLES subscriptionCache, compositionObjs, testCache, useTestCache,
          hostPc, call

vars == <<subscriptionCache, compositionObjs, testCache, useTestCache,
          hostPc, call>>

(***************************************************************************)
(* Bounds of the model.                                                    *)
(***************************************************************************)
MaxConds == 2
MaxValues == 2

(***************************************************************************)
(* JavaScript values.                                                      *)
(***************************************************************************)
Undef == [t |-> "undefined", k |-> "undefined", n |-> 0, s |-> <<>>]
Num(i) == [t |-> "number", k |-> "finite", n |-> i, s |-> <<>>]
PosInf == [t |-> "number", k |-> "Infinity", n |-> 0, s |-> <<>>]
NaN == [t |-> "number", k |-> "NaN", n |-> 0, s |-> <<>>]
Str(chars) == [t |-> "string", k |-> "string", n |-> 0, s |-> chars]
Bool(b) == [t |-> "boolean", k |-> IF b THEN "true" ELSE "false", n |-> 0, s |-> <<>>]

TypeOf(v) == v.t

\* ToBoolean: undefined, NaN, 0, "" and false are falsy.
Truthy(v) ==
    CASE v.t = "undefined" -> FALSE
      [] v.t = "number" -> ~(v.k = "NaN") /\ ~(v.k = "finite" /\ v.n = 0)
      [] v.t = "string" -> v.s # <<>>
      [] OTHER -> v.k = "true"

\* a || b and a && b keep the operand, they do not convert it to a boolean.
JsOr(a, b) == IF Truthy(a) THEN a ELSE b
JsAnd(a, b) == IF Truthy(a) THEN b ELSE a

\* array[i] past the end of the array is undefined (i counts from 0).
At(input, i) == IF i + 1 <= Len(input) THEN input[i + 1] ELSE Undef

(***************************************************************************)
(* Number(value): the string grammar over the characters the model uses    *)
(* (decimal digits, blanks, the literal Infinity, letters).                *)
(***************************************************************************)
DigitChars == <<"0", "1", "2", "3", "4", "5", "6", "7", "8", "9">>
IsDigit(c) == \E d \in DOMAIN DigitChars : DigitChars[d] = c
DigitValue(c) == (CHOOSE d \in DOMAIN DigitChars : DigitChars[d] = c) - 1

InfinityChars == <<"I", "n", "f", "i", "n", "i", "t", "y">>
UndefinedChars == <<"u", "n", "d", "e", "f", "i", "n", "e", "d">>

RECURSIVE TrimLeft(_)
TrimLeft(chars) ==
    IF chars # <<>> /\ Head(chars) = " " THEN TrimLeft(Tail(chars)) ELSE chars

RECURSIVE TrimRight(_)
TrimRight(chars) ==
    IF chars # <<>> /\ chars[Len(chars)] = " "
    THEN TrimRight(SubSeq(chars, 1, Len(chars) - 1))
    ELSE chars

RECURSIVE DecimalValue(_)
DecimalValue(chars) ==
    IF chars = <<>> THEN 0
    ELSE DecimalValue(SubSeq(chars, 1, Len(chars) - 1)) * 10
         + DigitValue(chars[Len(chars)])

\* The numeric value of a text without blanks around it: the empty text is
\* 0, Infinity is infinite, a run of digits is its decimal value, anything
\* else is NaN.
StrNumericLiteral(trimmed) ==
    IF trimmed = <<>> THEN Num(0)
    ELSE IF trimmed = InfinityChars THEN PosInf
    ELSE IF \A i \in DOMAIN trimmed : IsDigit(trimmed[i])
         THEN Num(DecimalValue(trimmed))
    ELSE NaN

\* StringToNumber: the blanks around the text are dropped first.
StringToNumber(chars) == StrNumericLiteral(TrimRight(TrimLeft(chars)))

ToNumber(v) ==
    CASE v.t = "number" -> v
      [] v.t = "string" -> StringToNumber(v.s)
      [] v.t = "boolean" -> Num(IF v.k = "true" THEN 1 ELSE 0)
      [] OTHER -> NaN

IsNaN(v) == ToNumber(v).k = "NaN"

RECURSIVE NaturalChars(_)
NaturalChars(i) ==
    IF i < 10 THEN <<DigitChars[i + 1]>>
    ELSE Append(NaturalChars(i \div 10), DigitChars[(i % 10) + 1])

\* String(value), applied by startsWith / endsWith / includes to their
\* argument (numbers of the model are not negative).
ToStringChars(v) ==
    CASE v.t = "string" -> v.s
      [] v.t = "undefined" -> UndefinedChars
      [] v.t = "boolean" -> IF v.k = "true" THEN <<"t", "r", "u", "e">>
                            ELSE <<"f", "a", "l", "s", "e">>
      [] v.k = "finite" -> NaturalChars(v.n)
      [] v.k = "Infinity" -> InfinityChars
      [] OTHER -> <<"N", "a", "N">>

\* a === b: same type and same value, NaN equal to nothing.
StrictEq(a, b) == a.t = b.t /\ a.k # "NaN" /\ a = b

\* a < b on operands that are not both strings (the validators let the
\* relational operations see numbers and undefined only): both are converted
\* with ToNumber and NaN compares false with everything.
NumberLess(x, y) ==
    /\ x.k # "NaN"
    /\ y.k # "NaN"
    /\ \/ x.k = "finite" /\ y.k = "Infinity"
       \/ x.k = "finite" /\ y.k = "finite" /\ x.n < y.n

NumberLessEq(x, y) == x.k # "NaN" /\ y.k # "NaN" /\ ~NumberLess(y, x)

JsLess(a, b) == NumberLess(ToNumber(a), ToNumber(b))

JsLessEq(a, b) == NumberLessEq(ToNumber(a), ToNumber(b))

Includes(chars, part) ==
    \E i \in 0..(Len(chars) - Len(part)) : SubSeq(chars, i + 1, i + Len(part)) = part

StartsWith(chars, part) ==
    Len(part) <= Len(chars) /\ SubSeq(chars, 1, Len(part)) = part

EndsWith(chars, part) ==
    /\ Len(part) <= Len(chars)
    /\ SubSeq(chars, Len(chars) - Len(part) + 1, Len(chars)) = part

(***************************************************************************)
(* The operation registry (this.operations) and the validators.            *)
(***************************************************************************)
NumberOperations ==
    {"equalTo", "notEqualTo", "greaterThan", "lessThan", "greaterThanOrEq",
     "lessThanOrEq", "between", "notBetween"}
StringOperations ==
    {"textContains", "textDoesNotContain", "textStartsWith", "textEndsWith",
     "textIsExactly"}
AnyTypeOperations == {"isUndefined", "isDefined"}
EnumOperations == {"enumValueIs", "enumValueIsNot"}

getOperationKeys ==
    NumberOperations \cup StringOperations \cup AnyTypeOperations \cup EnumOperations

\* this.operations[key] && this.operations[key].operation
HasOperation(key) == key \in getOperationKeys

appliesTo(key) ==
    CASE key \in NumberOperations -> <<"number">>
      [] key \in StringOperations -> <<"string">>
      [] key \in AnyTypeOperations -> <<"string", "number", "enum">>
      [] OTHER -> <<"enum">>

inputCount(key) ==
    CASE key \in {"between", "notBetween"} -> 2
      [] key \in AnyTypeOperations -> 0
      [] OTHER -> 1

\* operations[key].operation(input)
Predicate(key, v, x, y) ==
        CASE key = "equalTo" -> Bool(StrictEq(v, x))
          [] key = "notEqualTo" -> Bool(~StrictEq(v, x))
          [] key = "greaterThan" -> Bool(JsLess(x, v))
          [] key = "lessThan" -> Bool(JsLess(v, x))
          [] key = "greaterThanOrEq" -> Bool(JsLessEq(x, v))
          [] key = "lessThanOrEq" -> Bool(JsLessEq(v, x))
          [] key = "between" -> Bool(JsLess(x, v) /\ JsLess(v, y))
          [] key = "notBetween" -> Bool(JsLess(v, x) \/ JsLess(y, v))
          [] key = "textContains" ->
                JsAnd(JsAnd(v, x), Bool(Includes(v.s, ToStringChars(x))))
          [] key = "textDoesNotContain" ->
                JsAnd(JsAnd(v, x), Bool(~Includes(v.s, ToStringChars(x))))
          [] key = "textStartsWith" -> Bool(StartsWith(v.s, ToStringChars(x)))
          [] key = "textEndsWith" -> Bool(EndsWith(v.s, ToStringChars(x)))
          [] key = "textIsExactly" -> Bool(StrictEq(v, x))
          [] key = "isUndefined" -> Bool(TypeOf(v) = "undefined")
          [] key = "isDefined" -> Bool(TypeOf(v) # "undefined")
          [] key = "enumValueIs" -> Bool(StrictEq(v, x))
          [] OTHER -> Bool(~StrictEq(v, x))

operation(key, input) == Predicate(key, At(input, 0), At(input, 1), At(input, 2))

validateNumberInput(input) == \A i \in DOMAIN input : TypeOf(input[i]) = "number"

validateStringInput(input) == \A i \in DOMAIN input : TypeOf(input[i]) = "string"

\* this.inputValidators[type]
inputValidators(type, input) ==
    IF type = "string" THEN validateStringInput(input) ELSE validateNumberInput(input)

(***************************************************************************)
(* Caches map an entity id to a map from field key to value; a missing     *)
(* entity or key is missing from the DOMAIN.                               *)
(***************************************************************************)
HasField(cache, object, key) ==
    /\ object \in DOMAIN cache
    /\ key \in DOMAIN cache[object]
    /\ TypeOf(cache[object][key]) # "undefined"

\* isNaN(Number(value)) ? value : Number(value)
Coerce(value) == IF IsNaN(value) THEN value ELSE ToNumber(value)

Returned(v) == [thrown |-> FALSE, value |-> v]
Thrown == [thrown |-> TRUE, value |-> Undef]

\* validator(input) && op(input), with both validators tried for an
\* operation that applies to more than one type.
ValidateAndOperate(opKey, input) ==
    IF Len(appliesTo(opKey)) > 1
    THEN IF validateNumberInput(input) \/ validateStringInput(input)
         THEN operation(opKey, input)
         ELSE Bool(FALSE)
    ELSE IF inputValidators(appliesTo(opKey)[1], input)
         THEN operation(opKey, input)
         ELSE Bool(FALSE)

\* executeCondition, reading from the given cache: either a returned value
\* or the thrown 'Malformed condition'.
executeCondition(cache, object, key, opKey, values) ==
    IF HasOperation(opKey) /\ HasField(cache, object, key)
    THEN Returned(ValidateAndOperate(opKey, <<Coerce(cache[object][key])>> \o values))
    ELSE Thrown

(***************************************************************************)
(* The texts of the registry: operations[key].text and                     *)
(* operations[key].getDescription(values), as strings of characters.       *)
(***************************************************************************)
text(key) ==
    CASE key = "equalTo" ->
            <<"i", "s", " ", "e", "q", "u", "a", "l", " ", "t", "o">>
      [] key = "notEqualTo" ->
            <<"i", "s", " ", "n", "o", "t", " ", "e", "q", "u", "a", "l", " ", "t", "o">>
      [] key = "greaterThan" ->
            <<"i", "s", " ", "g", "r", "e", "a", "t", "e", "r", " ", "t", "h", "a", "n">>
      [] key = "lessThan" ->
            <<"i", "s", " ", "l", "e", "s", "s", " ", "t", "h", "a", "n">>
      [] key = "greaterThanOrEq" ->
            <<"i", "s", " ", "g", "r", "e", "a", "t", "e", "r", " ", "t", "h", "a", "n", " ", "o", "r", " ", "e", "q", "u", "a", "l", " ", "t", "o">>
      [] key = "lessThanOrEq" ->
            <<"i", "s", " ", "l", "e", "s", "s", " ", "t", "h", "a", "n", " ", "o", "r", " ", "e", "q", "u", "a", "l", " ", "t", "o">>
      [] key = "between" ->
            <<"i", "s", " ", "b", "e", "t", "w", "e", "e", "n">>
      [] key = "notBetween" ->
            <<"i", "s", " ", "n", "o", "t", " ", "b", "e", "t", "w", "e", "e", "n">>
      [] key = "textContains" ->
            <<"t", "e", "x", "t", " ", "c", "o", "n", "t", "a", "i", "n", "s">>
      [] key = "textDoesNotContain" ->
            <<"t", "e", "x", "t", " ", "d", "o", "e", "s", " ", "n", "o", "t", " ", "c", "o", "n", "t", "a", "i", "n">>
      [] key = "textStartsWith" ->
            <<"t", "e", "x", "t", " ", "s", "t", "a", "r", "t", "s", " ", "w", "i", "t", "h">>
      [] key = "textEndsWith" ->
            <<"t", "e", "x", "t", " ", "e", "n", "d", "s", " ", "w", "i", "t", "h">>
      [] key = "textIsExactly" ->
            <<"t", "e", "x", "t", " ", "i", "s", " ", "e", "x", "a", "c", "t", "l", "y">>
      [] key = "isUndefined" ->
            <<"i", "s", " ", "u", "n", "d", "e", "f", "i", "n", "e", "d">>
      [] key = "isDefined" ->
            <<"i", "s", " ", "d", "e", "f", "i", "n", "e", "d">>
      [] key = "enumValueIs" ->
            <<"i", "s">>
      [] key = "enumValueIsNot" ->
            <<"i", "s", " ", "n", "o", "t">>

\* ' == ' + values[0], ' between ' + values[0] + ' and ' + values[1], ...
getDescription(key, values) ==
    CASE key = "equalTo" ->
            <<" ", "=", "=", " ">>
            \o ToStringChars(At(values, 0))
      [] key = "notEqualTo" ->
            <<" ", "!", "=", " ">>
            \o ToStringChars(At(values, 0))
      [] key = "greaterThan" ->
            <<" ", ">", " ">>
            \o ToStringChars(At(values, 0))
      [] key = "lessThan" ->
            <<" ", "<", " ">>
            \o ToStringChars(At(values, 0))
      [] key = "greaterThanOrEq" ->
            <<" ", ">", "=", " ">>
            \o ToStringChars(At(values, 0))
      [] key = "lessThanOrEq" ->
            <<" ", "<", "=", " ">>
            \o ToStringChars(At(values, 0))
      [] key = "between" ->
            <<" ", "b", "e", "t", "w", "e", "e", "n", " ">>
            \o ToStringChars(At(values, 0))
            \o <<" ", "a", "n", "d", " ">>
            \o ToStringChars(At(values, 1))
      [] key = "notBetween" ->
            <<" ", "n", "o", "t", " ", "b", "e", "t", "w", "e", "e", "n", " ">>
            \o ToStringChars(At(values, 0))
            \o <<" ", "a", "n", "d", " ">>
            \o ToStringChars(At(values, 1))
      [] key = "textContains" ->
            <<" ", "c", "o", "n", "t", "a", "i", "n", "s", " ">>
            \o ToStringChars(At(values, 0))
      [] key = "textDoesNotContain" ->
            <<" ", "d", "o", "e", "s", " ", "n", "o", "t", " ", "c", "o", "n", "t", "a", "i", "n", " ">>
            \o ToStringChars(At(values, 0))
      [] key = "textStartsWith" ->
            <<" ", "s", "t", "a", "r", "t", "s", " ", "w", "i", "t", "h", " ">>
            \o ToStringChars(At(values, 0))
      [] key = "textEndsWith" ->
            <<" ", "e", "n", "d", "s", " ", "w", "i", "t", "h", " ">>
            \o ToStringChars(At(values, 0))
      [] key = "textIsExactly" ->
            <<" ", "i", "s", " ", "e", "x", "a", "c", "t", "l", "y", " ">>
            \o ToStringChars(At(values, 0))
      [] key = "isUndefined" ->
            <<" ", "i", "s", " ", "u", "n", "d", "e", "f", "i", "n", "e", "d">>
      [] key = "isDefined" ->
            <<" ", "i", "s", " ", "d", "e", "f", "i", "n", "e", "d">>
      [] key = "enumValueIs" ->
            <<" ", "=", "=", " ">>
            \o ToStringChars(At(values, 0))
      [] key = "enumValueIsNot" ->
            <<" ", "!", "=", " ">>
            \o ToStringChars(At(values, 0))

\* return this.operations[key].text: reading .text of undefined raises a
\* TypeError when the key is not in the registry.
getOperationText(key) ==
    IF HasOperation(key) THEN Returned(Str(text(key))) ELSE Thrown

\* if (this.operations[key]) { return this.operations[key].getDescription(values); }
\* and undefined when the key is not in the registry.
getOperationDescription(key, values) ==
    IF HasOperation(key) THEN Returned(Str(getDescription(key, values)))
    ELSE Returned(Undef)

(***************************************************************************)
(* execute(conditions, mode) for the modes 'any' and 'all': the locals of  *)
(* the call are the record st; st.raised tells that an exception left a    *)
(* forEach callback, which ends the call.                                  *)
(***************************************************************************)
Accumulator ==
    [active |-> Bool(FALSE), conditionValue |-> Undef, conditionDefined |-> FALSE,
     firstRuleEvaluated |-> FALSE, raised |-> FALSE]

\* Mutant of CatchMalformed: the exception is not absorbed.
CatchMalformedRethrows(st) == [st EXCEPT !.raised = TRUE]

\* catch (e) { /* ignore a malformed condition */ }
CatchMalformed(st) == st

\* Mutant of AnyMember: the value of the last entity replaces the OR.
AnyMemberLastWins(st, r) ==
    IF r.thrown
    THEN CatchMalformed(st)
    ELSE [st EXCEPT !.conditionValue = r.value, !.conditionDefined = TRUE]

\* try { conditionValue = conditionValue || executeCondition(objId, ...);
\*       conditionDefined = true; } catch (e) {}
\* with r the outcome of executeCondition, which is not called once
\* conditionValue is truthy.
AnyMember(st, r) ==
    IF Truthy(st.conditionValue)
    THEN [st EXCEPT !.conditionDefined = TRUE]
    ELSE IF r.thrown
         THEN CatchMalformed(st)
         ELSE [st EXCEPT !.conditionValue = r.value, !.conditionDefined = TRUE]

\* Mutant of AllMember: conditionDefined is set whether or not the
\* evaluation raised.
AllMemberAlwaysDefined(st, r) ==
    IF ~Truthy(st.conditionValue) \/ r.thrown
    THEN [st EXCEPT !.conditionDefined = TRUE]
    ELSE [st EXCEPT !.conditionValue = r.value, !.conditionDefined = TRUE]

\* try { conditionValue = conditionValue && executeCondition(objId, ...);
\*       conditionDefined = true; } catch (e) {}
\* with r the outcome of executeCondition, which is not called once
\* conditionValue is falsy.
AllMember(st, r) ==
    IF ~Truthy(st.conditionValue)
    THEN [st EXCEPT !.conditionDefined = TRUE]
    ELSE IF r.thrown
         THEN CatchMalformed(st)
         ELSE [st EXCEPT !.conditionValue = r.value, !.conditionDefined = TRUE]

\* The callback of Object.keys(compositionObjs).forEach in the two fan-out
\* branches.
Member(cache, st, objId, condition) ==
    IF condition.object = "any"
    THEN AnyMember(st, executeCondition(cache, objId, condition.key,
                                        condition.operation, condition.values))
    ELSE AllMember(st, executeCondition(cache, objId, condition.key,
                                        condition.operation, condition.values))

\* Object.keys(compositionObjs).forEach(...)
RECURSIVE ForEachObjId(_, _, _, _)
ForEachObjId(cache, st, objIds, condition) ==
    IF objIds = <<>> \/ st.raised THEN st
    ELSE ForEachObjId(cache, Member(cache, st, Head(objIds), condition),
                      Tail(objIds), condition)

\* Mutant of DirectCondition: a malformed condition counts as false.
DirectConditionMalformedIsFalse(st, r) ==
    [st EXCEPT !.conditionValue = IF r.thrown THEN Bool(FALSE) ELSE r.value,
               !.conditionDefined = TRUE]

\* try { conditionValue = executeCondition(condition.object, ...);
\*       conditionDefined = true; } catch (e) {}
\* with r the outcome of executeCondition.
DirectCondition(st, r) ==
    IF r.thrown
    THEN CatchMalformed(st)
    ELSE [st EXCEPT !.conditionValue = r.value, !.conditionDefined = TRUE]

\* The three branches on condition.object, entered with conditionDefined
\* reset to false.
Evaluate(cache, objIds, st, condition) ==
    CASE condition.object = "any" ->
            ForEachObjId(cache, [st EXCEPT !.conditionValue = Bool(FALSE)],
                         objIds, condition)
      [] condition.object = "all" ->
            ForEachObjId(cache, [st EXCEPT !.conditionValue = Bool(TRUE)],
                         objIds, condition)
      [] OTHER ->
            DirectCondition(st, executeCondition(cache, condition.object, condition.key,
                                                 condition.operation, condition.values))

\* active = (mode === 'all' && !firstRuleEvaluated ? true : active)
SeedActive(st, mode) ==
    IF mode = "all" /\ ~st.firstRuleEvaluated THEN Bool(TRUE) ELSE st.active

\* if (mode === 'any') active = active || conditionValue;
\* else if (mode === 'all') active = active && conditionValue;
Combine(active, conditionValue, mode) ==
    CASE mode = "any" -> JsOr(active, conditionValue)
      [] mode = "all" -> JsAnd(active, conditionValue)
      [] OTHER -> active

\* Mutant of Aggregate: the test of conditionDefined is missing.
AggregateWithoutTest(st, mode) ==
    IF ~st.raised
    THEN [st EXCEPT !.firstRuleEvaluated = TRUE,
                    !.active = Combine(SeedActive(st, mode), st.conditionValue, mode)]
    ELSE st

\* if (conditionDefined) { ... } at the end of the callback; an exception
\* that left the callback skips it.
Aggregate(st, mode) ==
    IF st.conditionDefined /\ ~st.raised
    THEN [st EXCEPT !.firstRuleEvaluated = TRUE,
                    !.active = Combine(SeedActive(st, mode), st.conditionValue, mode)]
    ELSE st

\* The callback of conditions.forEach.
EvaluateCondition(cache, objIds, st, condition, mode) ==
    Aggregate(Evaluate(cache, objIds, [st EXCEPT !.conditionDefined = FALSE], condition),
              mode)

\* conditions.forEach(...)
RECURSIVE ForEachCondition(_, _, _, _, _)
ForEachCondition(cache, objIds, st, conditions, mode) ==
    IF conditions = <<>> \/ st.raised THEN st
    ELSE ForEachCondition(cache, objIds,
                          EvaluateCondition(cache, objIds, st, Head(conditions), mode),
                          Tail(conditions), mode)

\* return active, unless an exception ended the call.
Outcome(st) == IF st.raised THEN Thrown ELSE Returned(st.active)

\* (conditions || []).forEach(...): conditions is [present, list] and an
\* absent list is read as the empty one.
ConditionList(conditions) == IF conditions.present THEN conditions.list ELSE <<>>

\* The expression evaluator the host supplies for mode 'js': the source
\* calls this.executeJavaScriptCondition and does not define it.  It takes
\* the expression, a string, and gives its boolean value; the expressions
\* of the model are the literals true and false under negations.
RECURSIVE EvalBoolean(_)
EvalBoolean(chars) ==
    IF chars # <<>> /\ Head(chars) = "!" THEN ~EvalBoolean(Tail(chars))
    ELSE chars = <<"t", "r", "u", "e">>

executeJavaScriptCondition(expression) == Bool(EvalBoolean(expression.s))

\* Mutant of JavaScriptCondition: the value of the evaluator is not
\* assigned to active.
JavaScriptConditionDropped(conditions) == Returned(Bool(FALSE))

\* if (mode === 'js') { active = this.executeJavaScriptCondition(conditions); }
\* ... return active;
JavaScriptCondition(conditions) == Returned(executeJavaScriptCondition(conditions))

execute(cache, objIds, conditions, mode) ==
    IF mode = "js"
    THEN JavaScriptCondition(conditions)
    ELSE Outcome(ForEachCondition(cache, objIds, Accumulator, ConditionList(conditions),
                                  mode))

(***************************************************************************)
(* The evaluator and its host.  The host calls into the evaluator when it  *)
(* is idle and then takes the value the call returned (or the exception it *)
(* raised); call records the call in between.                              *)
(***************************************************************************)
Entities == {"A", "B"}
FieldKey == "x"

Ab == Str(<<"a", "b">>)

NoConditions == [present |-> FALSE, list |-> <<>>]
Conditions(list) == [present |-> TRUE, list |-> list]

Condition(object, opKey, values) ==
    [object |-> object, key |-> FieldKey, operation |-> opKey, values |-> values]

\* The cache without entities ({} in the source).
EmptyCache == [e \in {} |-> Undef]

\* The record of a call: the function called, its arguments (those of the
\* other functions at their defaults) and what it returned.
NoCall ==
    [fn |-> "none", conditions |-> NoConditions, mode |-> "", object |-> "",
     key |-> "", operation |-> "", values |-> <<>>, cache |-> EmptyCache,
     flag |-> FALSE, result |-> Returned(Undef)]

\* The sequences of at most n elements of S.
SeqsUpTo(S, n) == UNION {[1..m -> S] : m \in 0..n}

\* The caches whose fields hold values of FV: an entity may be missing and
\* an entity's field may be missing.
CachesOver(FV) ==
    LET entries == {[k \in {} |-> Undef]} \cup {[k \in {FieldKey} |-> v] : v \in FV}
    IN  UNION {[D -> entries] : D \in SUBSET Entities}

\* The entity sets, in the key order Object.keys gives.
CompositionKeys ==
    {ids \in SeqsUpTo(Entities, Cardinality(Entities)) :
        \A i, j \in DOMAIN ids : i # j => ids[i] # ids[j]}

\* Mutant of ActiveCache: an entity the test cache lacks is read from the
\* live cache.
ActiveCacheMerged ==
    IF useTestCache
    THEN [e \in DOMAIN testCache \cup DOMAIN subscriptionCache |->
             IF e \in DOMAIN testCache THEN testCache[e] ELSE subscriptionCache[e]]
    ELSE subscriptionCache

\* this.useTestCache ? this.testCache : this.subscriptionCache
ActiveCache == IF useTestCache THEN testCache ELSE subscriptionCache

\* new ConditionEvaluator(subscriptionCache, compositionObjs)
Constructed(caches, keys) ==
    /\ subscriptionCache \in caches
    /\ compositionObjs \in keys
    /\ testCache = EmptyCache
    /\ useTestCache = FALSE
    /\ hostPc = "idle"
    /\ call = NoCall

\* Mutant of CallExecuteOf: the call empties the entity set it went through.
CallExecuteOfDraining(conditionLists, modes) ==
    /\ hostPc = "idle"
    /\ \E conditions \in conditionLists, mode \in modes :
          call' = [NoCall EXCEPT !.fn = "execute", !.conditions = conditions,
                                 !.mode = mode,
                                 !.result = execute(ActiveCache, compositionObjs,
                                                    conditions, mode)]
    /\ hostPc' = "returned"
    /\ compositionObjs' = <<>>
    /\ UNCHANGED <<subscriptionCache, testCache, useTestCache>>

CallExecuteOf(conditionLists, modes) ==
    /\ hostPc = "idle"
    /\ \E conditions \in conditionLists, mode \in modes :
          call' = [NoCall EXCEPT !.fn = "execute", !.conditions = conditions,
                                 !.mode = mode,
                                 !.result = execute(ActiveCache, compositionObjs,
                                                    conditions, mode)]
    /\ hostPc' = "returned"
    /\ UNCHANGED <<subscriptionCache, compositionObjs, testCache, useTestCache>>

CallExecuteConditionOf(objects, opKeys, valueLists) ==
    /\ hostPc = "idle"
    /\ \E object \in objects, opKey \in opKeys, values \in valueLists :
          call' = [NoCall EXCEPT !.fn = "executeCondition", !.object = object,
                                 !.key = FieldKey, !.operation = opKey,
                                 !.values = values,
                                 !.result = executeCondition(ActiveCache, object,
                                                FieldKey, opKey, values)]
    /\ hostPc' = "returned"
    /\ UNCHANGED <<subscriptionCache, compositionObjs, testCache, useTestCache>>

\* The host takes the result of the call.
Return ==
    /\ hostPc = "returned"
    /\ hostPc' = "idle"
    /\ call' = NoCall
    /\ UNCHANGED <<subscriptionCache, compositionObjs, testCache, useTestCache>>

setTestDataCacheOf(caches) ==
    /\ hostPc = "idle"
    /\ \E cache \in caches :
          /\ testCache' = cache
          /\ call' = [NoCall EXCEPT !.fn = "setTestDataCache", !.cache = cache]
    /\ hostPc' = "returned"
    /\ UNCHANGED <<subscriptionCache, compositionObjs, useTestCache>>

useTestData ==
    /\ hostPc = "idle"
    /\ \E flag \in BOOLEAN :
          /\ useTestCache' = flag
          /\ call' = [NoCall EXCEPT !.fn = "useTestData", !.flag = flag]
    /\ hostPc' = "returned"
    /\ UNCHANGED <<subscriptionCache, compositionObjs, testCache>>

CallGetOperationTextOf(opKeys) ==
    /\ hostPc = "idle"
    /\ \E opKey \in opKeys :
          call' = [NoCall EXCEPT !.fn = "getOperationText", !.operation = opKey,
                                 !.result = getOperationText(opKey)]
    /\ hostPc' = "returned"
    /\ UNCHANGED <<subscriptionCache, compositionObjs, testCache, useTestCache>>

CallGetOperationDescriptionOf(opKeys, valueLists) ==
    /\ hostPc = "idle"
    /\ \E opKey \in opKeys, values \in valueLists :
          call' = [NoCall EXCEPT !.fn = "getOperationDescription",
                                 !.operation = opKey, !.values = values,
                                 !.result = getOperationDescription(opKey, values)]
    /\ hostPc' = "returned"
    /\ UNCHANGED <<subscriptionCache, compositionObjs, testCache, useTestCache>>

(***************************************************************************)
(* Spec: rule sets evaluated against the live cache.                       *)
(***************************************************************************)
FieldValues == {Num(5), Num(10), Ab}

UnknownOperation == "noSuchOperation"

ExecValues == {<<>>, <<Num(7)>>, <<Ab>>}

ExecTemplates ==
    {<<"greaterThan", <<Num(7)>>>>, <<"greaterThan", <<Ab>>>>,
     <<"isDefined", <<>>>>, <<UnknownOperation, <<Num(7)>>>>}

ExecConditions ==
    {Condition(object, t[1], t[2]) : object \in {"A", "any", "all"},
                                     t \in ExecTemplates}

ExecConditionLists ==
    {NoConditions} \cup {Conditions(list) : list \in SeqsUpTo(ExecConditions, MaxConds)}

Modes == {"any", "all"}

Init == Constructed(CachesOver(FieldValues), CompositionKeys)

CallExecute == CallExecuteOf(ExecConditionLists, Modes)

CallExecuteCondition ==
    CallExecuteConditionOf(Entities, getOperationKeys \cup {UnknownOperation}, ExecValues)

Next == CallExecute \/ CallExecuteCondition \/ Return

Spec == Init /\ [][Next]_vars

(***************************************************************************)
(* SpecCond: single conditions over every operation of the registry, with  *)
(* up to MaxValues comparison values, against caches that hold numbers and *)
(* numeric, blank and other texts.                                         *)
(***************************************************************************)
Text42 == Str(<<"4", "2">>)
EmptyText == Str(<<>>)
BlankText == Str(<<" ">>)
InfinityText == Str(InfinityChars)

CondFieldValues == {Num(5), Num(10), Text42, EmptyText, BlankText, InfinityText, Ab}

CondLiterals == {Num(5), Num(10), Num(42), EmptyText, Ab}

InitCond == Constructed(CachesOver(CondFieldValues), {<<"A", "B">>})

CallExecuteConditionCond ==
    CallExecuteConditionOf(Entities, getOperationKeys \cup {UnknownOperation},
                           SeqsUpTo(CondLiterals, MaxValues))

NextCond == CallExecuteConditionCond \/ Return

SpecCond == InitCond /\ [][NextCond]_vars

(***************************************************************************)
(* SpecCache: the test cache is installed and the toggle is set, in any    *)
(* order, between evaluations.                                             *)
(***************************************************************************)
CacheFieldValues == {Num(1), Num(2)}

CacheTemplates == {<<"equalTo", <<Num(1)>>>>}

CacheConditions ==
    {Condition(object, t[1], t[2]) : object \in Entities \cup {"any", "all"},
                                     t \in CacheTemplates}

InitCache == Constructed(CachesOver(CacheFieldValues), {<<"A", "B">>})

setTestDataCache == setTestDataCacheOf(CachesOver(CacheFieldValues))

CallExecuteCache ==
    CallExecuteOf({Conditions(list) : list \in SeqsUpTo(CacheConditions, MaxConds)},
                  Modes)

CallExecuteConditionCache ==
    CallExecuteConditionOf(Entities, {"equalTo", "isDefined"}, {<<>>, <<Num(1)>>})

NextCache ==
    \/ setTestDataCache
    \/ useTestData
    \/ CallExecuteCache
    \/ CallExecuteConditionCache
    \/ Return

SpecCache == InitCache /\ [][NextCache]_vars

(***************************************************************************)
(* SpecRegistry: the host asks for the label and the description of the    *)
(* operations of the registry and of a key the registry does not hold.     *)
(***************************************************************************)
CallGetOperationText == CallGetOperationTextOf(getOperationKeys \cup {UnknownOperation})

CallGetOperationDescription ==
    CallGetOperationDescriptionOf(getOperationKeys \cup {UnknownOperation},
                                  SeqsUpTo({Num(5), Num(10), Ab}, MaxValues))

NextRegistry == CallGetOperationText \/ CallGetOperationDescription \/ Return

SpecRegistry == Init /\ [][NextRegistry]_vars

(***************************************************************************)
(* SpecHost: the host owns the live cache and the entity set that the      *)
(* constructor was given (this.subscriptionCache, this.compositionObjs)    *)
(* and changes them between the calls; the evaluator starts with both      *)
(* empty.                                                                  *)
(***************************************************************************)
InitHost == Constructed({EmptyCache}, {<<>>})

HostChangesCache ==
    /\ hostPc = "idle"
    /\ subscriptionCache' \in CachesOver(CacheFieldValues)
    /\ UNCHANGED <<compositionObjs, testCache, useTestCache, hostPc, call>>

HostChangesEntities ==
    /\ hostPc = "idle"
    /\ compositionObjs' \in CompositionKeys
    /\ UNCHANGED <<subscriptionCache, testCache, useTestCache, hostPc, call>>

NextHost ==
    \/ HostChangesCache
    \/ HostChangesEntities
    \/ setTestDataCache
    \/ useTestData
    \/ CallExecuteCache
    \/ CallExecuteConditionCache
    \/ Return

SpecHost == InitHost /\ [][NextHost]_vars

(***************************************************************************)
(* SpecJs: rule sets in mode 'js', whose first argument is an expression.  *)
(***************************************************************************)
JsExpressions ==
    {Str(<<"t", "r", "u", "e">>), Str(<<"f", "a", "l", "s", "e">>),
     Str(<<"!", "t", "r", "u", "e">>), Str(<<"!", "f", "a", "l", "s", "e">>)}

CallExecuteJs == CallExecuteOf(JsExpressions, {"js"})

NextJs == CallExecuteJs \/ Return

SpecJs == Init /\ [][NextJs]_vars

(***************************************************************************)
(* SpecOrder: rule sets of text conditions, among them textContains with   *)
(* the empty text as comparison value, over every order of the entity set. *)
(***************************************************************************)
OrderTemplates ==
    {<<"textContains", <<Str(<<"a">>)>>>>, <<"textContains", <<Str(<<"c">>)>>>>,
     <<"textContains", <<EmptyText>>>>}

OrderConditions ==
    {Condition(object, t[1], t[2]) : object \in {"A", "any", "all"},
                                     t \in OrderTemplates}

InitOrder == Constructed(CachesOver({Ab}), CompositionKeys)

CallExecuteOrder ==
    CallExecuteOf({NoConditions}
                      \cup {Conditions(list) : list \in SeqsUpTo(OrderConditions, MaxConds)},
                  Modes)

NextOrder == CallExecuteOrder \/ Return

SpecOrder == InitOrder /\ [][NextOrder]_vars

(***************************************************************************)
(* What the claims below read from a state in which a call has returned.   *)
(***************************************************************************)
ReturnedFrom(fn) == hostPc = "returned" /\ call.fn = fn

\* The raw value the call's condition addresses (executeCondition calls).
FieldPresent == HasField(ActiveCache, call.object, call.key)
FieldValue == ActiveCache[call.object][call.key]

IsFalse(r) == ~r.thrown /\ r.value = Bool(FALSE)
IsTrue(r) == ~r.thrown /\ r.value = Bool(TRUE)

\* The outcome of one condition of a list on its own entity (direct
\* conditions).
DirectOutcome(condition) ==
    executeCondition(ActiveCache, condition.object, condition.key,
                     condition.operation, condition.values)

\* A condition on a present numeric field, with an operation that applies to
\* numbers only and a comparison operand that is not a number.
NonNumericOperand(object, key, opKey, values) ==
    /\ opKey \in NumberOperations
    /\ HasField(ActiveCache, object, key)
    /\ TypeOf(ActiveCache[object][key]) = "number"
    /\ \E i \in DOMAIN values : TypeOf(values[i]) # "number"

(***************************************************************************)
(* C1: for the operations that apply to numbers only, a condition on a     *)
(* present numeric field with a non-numeric comparison operand is          *)
(* undefined: executeCondition raises Malformed Condition, and in mode     *)
(* 'all' a rule set of such a condition and a condition that is true       *)
(* evaluates to true.                                                      *)
(***************************************************************************)
C1_NonNumericOperandIsUndefined ==
    /\ ReturnedFrom("executeCondition")
         /\ NonNumericOperand(call.object, call.key, call.operation, call.values)
       => call.result.thrown
    /\ ReturnedFrom("execute") /\ call.mode = "all" /\ call.conditions.present
         /\ Len(call.conditions.list) = 2
       => \A i, j \in {1, 2} :
             LET bad == call.conditions.list[i]
                 good == call.conditions.list[j]
             IN  /\ i # j
                 /\ bad.object \in Entities
                 /\ good.object \in Entities
                 /\ NonNumericOperand(bad.object, bad.key, bad.operation, bad.values)
                 /\ IsTrue(DirectOutcome(good))
                 => IsTrue(call.result)

(***************************************************************************)
(* C2: on a field that is absent from the active cache (no such entity, or *)
(* no such key), isUndefined and isDefined called without comparison       *)
(* values do not raise: isUndefined returns true and isDefined returns     *)
(* false; every other operation raises Malformed Condition.                *)
(***************************************************************************)
C2_AbsentFieldIsUndefined ==
    ReturnedFrom("executeCondition") /\ ~FieldPresent
    => IF call.operation \in AnyTypeOperations
       THEN call.values = <<>>
            => /\ ~call.result.thrown
               /\ call.result.value = Bool(call.operation = "isUndefined")
       ELSE call.result.thrown

(***************************************************************************)
(* The conditions of a rule set, one by one, as the claims about execute   *)
(* speak of them.                                                          *)
(***************************************************************************)
IsFanOut(condition) == condition.object \in {"any", "all"}

\* The outcome of a fan-out condition on one entity of the entity set.
MemberOutcome(condition, objId) ==
    executeCondition(ActiveCache, objId, condition.key, condition.operation,
                     condition.values)

MemberCompletes(condition, objId) == ~MemberOutcome(condition, objId).thrown

MemberHolds(condition, objId) ==
    MemberCompletes(condition, objId) /\ Truthy(MemberOutcome(condition, objId).value)

EntityIds == {compositionObjs[i] : i \in DOMAIN compositionObjs}

SomeMemberCompletes(condition) == \E objId \in EntityIds : MemberCompletes(condition, objId)

\* A condition is defined if its evaluation, or that of one member of its
\* fan-out, completes without raising.
IsDefinedCondition(condition) ==
    IF IsFanOut(condition) THEN SomeMemberCompletes(condition)
    ELSE ~DirectOutcome(condition).thrown

\* The truth of a condition: OR over the entities, AND over the entities
\* that complete, or the value of the direct evaluation.
ConditionHolds(condition) ==
    CASE condition.object = "any" -> \E objId \in EntityIds : MemberHolds(condition, objId)
      [] condition.object = "all" ->
            \A objId \in EntityIds :
                MemberCompletes(condition, objId) => MemberHolds(condition, objId)
      [] OTHER -> Truthy(DirectOutcome(condition).value)

CallList == ConditionList(call.conditions)

DefinedConditions == SelectSeq(CallList, IsDefinedCondition)

\* The locals of the call before its i-th condition, and after a condition
\* that was entered with the locals st.
Before(i) ==
    ForEachCondition(ActiveCache, compositionObjs, Accumulator,
                     SubSeq(CallList, 1, i - 1), call.mode)
AfterCondition(st, condition) ==
    EvaluateCondition(ActiveCache, compositionObjs, st, condition, call.mode)

(***************************************************************************)
(* C3: conditions that do not become defined are transparent: execute      *)
(* returns what it returns on the list without them, and that is the OR    *)
(* (mode 'any') or the AND (mode 'all') of the defined conditions (false   *)
(* when there is none, as C4 states).                                      *)
(***************************************************************************)
C3_UndefinedConditionsAreTransparent ==
    ReturnedFrom("execute")
    => LET defined == DefinedConditions
       IN  /\ call.result = execute(ActiveCache, compositionObjs, Conditions(defined),
                                    call.mode)
           /\ ~call.result.thrown
           /\ Truthy(call.result.value)
              = IF call.mode = "any"
                THEN \E i \in DOMAIN defined : ConditionHolds(defined[i])
                ELSE /\ defined # <<>>
                     /\ \A i \in DOMAIN defined : ConditionHolds(defined[i])

\* In mode 'all' an undefined condition comes before a true one and the
\* result is true.
C3_Witness ==
    /\ ReturnedFrom("execute")
    /\ call.mode = "all"
    /\ Len(CallList) = 2
    /\ ~IsDefinedCondition(CallList[1])
    /\ IsDefinedCondition(CallList[2])
    /\ ConditionHolds(CallList[2])
    /\ IsTrue(call.result)

(***************************************************************************)
(* C4: when no condition of the list becomes defined (the list is absent   *)
(* or empty, or every condition is malformed), execute returns false, in   *)
(* mode 'any' and in mode 'all'.                                           *)
(***************************************************************************)
C4_NothingDefinedIsFalse ==
    ReturnedFrom("execute") /\ DefinedConditions = <<>>
    => IsFalse(call.result)

\* Mode 'all' on a list of two conditions, none of which becomes defined.
C4_Witness ==
    /\ ReturnedFrom("execute")
    /\ call.mode = "all"
    /\ Len(CallList) = 2
    /\ DefinedConditions = <<>>
    /\ IsFalse(call.result)

(***************************************************************************)
(* C5: a fan-out condition 'any' is true exactly when some entity of the   *)
(* entity set evaluates it to true, a fan-out condition 'all' exactly when *)
(* every entity whose evaluation does not raise evaluates it to true; an   *)
(* entity whose evaluation raises changes neither.  A rule set made of one *)
(* defined fan-out condition returns that value (so A.x = 5, B.x = 10 and  *)
(* greaterThan 7 give true for 'any' and false for 'all').                 *)
(***************************************************************************)
C5_FanOutValue ==
    ReturnedFrom("execute")
    => /\ \A i \in DOMAIN CallList :
             IsFanOut(CallList[i])
             => Truthy(Evaluate(ActiveCache, compositionObjs,
                                [Before(i) EXCEPT !.conditionDefined = FALSE],
                                CallList[i]).conditionValue)
                = ConditionHolds(CallList[i])
       /\ Len(CallList) = 1 /\ IsFanOut(CallList[1]) /\ SomeMemberCompletes(CallList[1])
          => Truthy(call.result.value) = ConditionHolds(CallList[1])
       /\ /\ Len(CallList) = 1
          /\ CallList[1] = Condition(CallList[1].object, "greaterThan", <<Num(7)>>)
          /\ EntityIds = {"A", "B"}
          /\ HasField(ActiveCache, "A", FieldKey) /\ ActiveCache["A"][FieldKey] = Num(5)
          /\ HasField(ActiveCache, "B", FieldKey) /\ ActiveCache["B"][FieldKey] = Num(10)
          => /\ CallList[1].object = "any" => IsTrue(call.result)
             /\ CallList[1].object = "all" => IsFalse(call.result)

\* An 'all' fan-out over two entities: the evaluation raises on the first,
\* is true on the second, and the rule set is true.
C5_Witness ==
    /\ ReturnedFrom("execute")
    /\ Len(CallList) = 1
    /\ CallList[1].object = "all"
    /\ Len(compositionObjs) = 2
    /\ ~MemberCompletes(CallList[1], compositionObjs[1])
    /\ MemberHolds(CallList[1], compositionObjs[2])
    /\ IsTrue(call.result)

(***************************************************************************)
(* C6: a fan-out condition is defined if and only if the evaluation of at  *)
(* least one entity completed without raising; when none does (or the      *)
(* entity set is empty) the condition leaves active and firstRuleEvaluated *)
(* as they were, whatever its seed value.                                  *)
(***************************************************************************)
C6_FanOutDefined ==
    ReturnedFrom("execute")
    => \A i \in DOMAIN CallList :
          IsFanOut(CallList[i])
          => LET before == Before(i)
                 after == AfterCondition(before, CallList[i])
                 completes == SomeMemberCompletes(CallList[i])
             IN  /\ after.conditionDefined = completes
                 /\ ~completes
                    => /\ after.active = before.active
                       /\ after.firstRuleEvaluated = before.firstRuleEvaluated
                       /\ call.result
                          = execute(ActiveCache, compositionObjs,
                                    Conditions(SubSeq(CallList, 1, i - 1)
                                               \o SubSeq(CallList, i + 1, Len(CallList))),
                                    call.mode)

\* Mode 'any': an 'all' fan-out over a non-empty entity set on which every
\* evaluation raises comes first and does not make the rule set true.
C6_Witness ==
    /\ ReturnedFrom("execute")
    /\ call.mode = "any"
    /\ Len(CallList) = 2
    /\ CallList[1].object = "all"
    /\ compositionObjs # <<>>
    /\ ~SomeMemberCompletes(CallList[1])
    /\ IsDefinedCondition(CallList[2])
    /\ IsFalse(call.result)

(***************************************************************************)
(* C10: in the modes 'any' and 'all' execute never raises: a Malformed     *)
(* Condition is absorbed where it occurs, the conditions after it are      *)
(* still evaluated and execute returns a result.                           *)
(***************************************************************************)
C10_ExecuteNeverRaises ==
    ReturnedFrom("execute")
    => /\ ~call.result.thrown
       /\ \A i \in DOMAIN CallList :
             IsDefinedCondition(CallList[i])
             => /\ call.mode = "any" /\ ConditionHolds(CallList[i])
                   => Truthy(call.result.value)
                /\ call.mode = "all" /\ ~ConditionHolds(CallList[i])
                   => ~Truthy(call.result.value)

\* A condition with an unknown operation comes first, a true condition
\* after it, and mode 'any' returns true.
C10_Witness ==
    /\ ReturnedFrom("execute")
    /\ call.mode = "any"
    /\ Len(CallList) = 2
    /\ CallList[1].operation = UnknownOperation
    /\ IsDefinedCondition(CallList[2])
    /\ ConditionHolds(CallList[2])
    /\ IsTrue(call.result)

(***************************************************************************)
(* C7: whatever the order of the useTestData and setTestDataCache calls,   *)
(* an evaluation reads the test cache installed last if the flag set last  *)
(* is true and the live cache otherwise.  setTestDataCache installs its    *)
(* argument and leaves the flag, useTestData sets the flag and leaves the  *)
(* test cache (so useTestData(false) keeps it), a missing entry of one     *)
(* cache is never read from the other, and no call changes the live cache. *)
(***************************************************************************)
SelectedCache == IF useTestCache THEN testCache ELSE subscriptionCache

C7_ReadsSelectedCache ==
    /\ ReturnedFrom("executeCondition")
       => call.result = executeCondition(SelectedCache, call.object, call.key,
                                         call.operation, call.values)
    /\ ReturnedFrom("execute")
       => call.result = execute(SelectedCache, compositionObjs, call.conditions,
                                call.mode)

C7_CallsKeepTheOtherCache ==
    /\ subscriptionCache' = subscriptionCache
    /\ call'.fn = "setTestDataCache" /\ hostPc' = "returned"
       => testCache' = call'.cache /\ useTestCache' = useTestCache
    /\ call'.fn = "useTestData" /\ hostPc' = "returned"
       => useTestCache' = call'.flag /\ testCache' = testCache
    /\ call'.fn \notin {"setTestDataCache", "useTestData"}
       => testCache' = testCache /\ useTestCache' = useTestCache

C7_TestCacheToggle == [](C7_ReadsSelectedCache) /\ [][C7_CallsKeepTheOtherCache]_vars

\* The flag is true, the test cache holds 1 for an entity for which the live
\* cache holds 2, and equalTo 1 on that entity is true.
C7_Witness ==
    /\ ReturnedFrom("executeCondition")
    /\ useTestCache
    /\ HasField(testCache, call.object, call.key)
    /\ testCache[call.object][call.key] = Num(1)
    /\ HasField(subscriptionCache, call.object, call.key)
    /\ subscriptionCache[call.object][call.key] = Num(2)
    /\ call.operation = "equalTo"
    /\ call.values = <<Num(1)>>
    /\ IsTrue(call.result)

(***************************************************************************)
(* C8: for a numeric field value v and bounds x1 <= x2, when v is x1 or v  *)
(* is x2 the operation between is false and the operation notBetween is    *)
(* true.                                                                   *)
(***************************************************************************)
C8_RangeOperationsAtTheBounds ==
    /\ ReturnedFrom("executeCondition")
    /\ call.operation \in {"between", "notBetween"}
    /\ FieldPresent
    /\ Coerce(FieldValue).k = "finite"
    /\ Len(call.values) = 2
    /\ \A i \in {1, 2} : call.values[i].k = "finite"
    /\ call.values[1].n <= call.values[2].n
    /\ Coerce(FieldValue) \in {call.values[1], call.values[2]}
    => IF call.operation = "between" THEN IsFalse(call.result) ELSE IsTrue(call.result)

(***************************************************************************)
(* C9: executeCondition turns the field value into a number exactly when   *)
(* it is a text that parses fully to a finite number ("42" with equalTo 42 *)
(* is true); every other present value, the empty text, a blank text and   *)
(* the text Infinity among them, stays as it is (so a text that is not     *)
(* numeric is exactly itself).                                             *)
(***************************************************************************)
FullyNumericText(v) ==
    TypeOf(v) = "string" /\ v.s # <<>> /\ \A i \in DOMAIN v.s : IsDigit(v.s[i])

C9_CoercionOfNumericText ==
    ReturnedFrom("executeCondition") /\ FieldPresent
    => /\ Coerce(FieldValue)
          = IF FullyNumericText(FieldValue) THEN Num(DecimalValue(FieldValue.s))
            ELSE FieldValue
       /\ FieldValue = Text42 /\ call.operation = "equalTo" /\ call.values = <<Num(42)>>
          => IsTrue(call.result)
       /\ /\ TypeOf(FieldValue) = "string"
          /\ ~FullyNumericText(FieldValue)
          /\ call.operation = "textIsExactly"
          /\ call.values = <<FieldValue>>
          => IsTrue(call.result)

(***************************************************************************)
(* C11: a condition that supplies fewer comparison values than the         *)
(* inputCount of its operation (notEqualTo or enumValueIsNot without a     *)
(* value, between with one value) is a Malformed Condition: executeCondition*)
(* raises, so the condition is never true and gives the aggregation no     *)
(* value.                                                                  *)
(***************************************************************************)
FewerOperands(opKey, values) == HasOperation(opKey) /\ Len(values) < inputCount(opKey)

C11_FewerOperandsIsMalformed ==
    ReturnedFrom("executeCondition") /\ FewerOperands(call.operation, call.values)
    => call.result.thrown

(***************************************************************************)
(* C12: asking for the label or the description of an operation key that   *)
(* the registry does not hold is not fatal: getOperationText(key) and      *)
(* getOperationDescription(key, values) return undefined and do not raise. *)
(***************************************************************************)
C12_UnknownKeyIntrospectionIsNotFatal ==
    /\ ReturnedFrom("getOperationText") \/ ReturnedFrom("getOperationDescription")
    /\ ~HasOperation(call.operation)
    => call.result = Returned(Undef)

(***************************************************************************)
(* C13: in mode 'js' execute returns exactly what the expression evaluator *)
(* gives for the first argument, and nothing else is consulted: whatever   *)
(* the value cache and the entity set hold, the call returns that value    *)
(* and does not raise.                                                     *)
(***************************************************************************)
C13_JsModeDelegates ==
    ReturnedFrom("execute") /\ call.mode = "js"
    => /\ call.result = Returned(executeJavaScriptCondition(call.conditions))
       /\ call.result.value \in {Bool(TRUE), Bool(FALSE)}
       /\ \A cache \in CachesOver(FieldValues), objIds \in CompositionKeys :
             execute(cache, objIds, call.conditions, "js") = call.result

\* A 'js' call that returns true although no entity of the entity set has a
\* value in the cache.
C13_Witness ==
    /\ ReturnedFrom("execute") /\ call.mode = "js"
    /\ IsTrue(call.result)
    /\ call.conditions = Str(<<"!", "f", "a", "l", "s", "e">>)
    /\ compositionObjs = <<"A", "B">>
    /\ ActiveCache = EmptyCache

(***************************************************************************)
(* C14: execute and executeCondition only read: a call leaves the live     *)
(* cache, the test cache, the entity set and the toggle as they were (the  *)
(* registry is assigned by the constructor alone), and its result is the   *)
(* evaluation of its arguments against the cache and the entity set as     *)
(* they are at the call, whatever they were at earlier calls or at         *)
(* construction.                                                           *)
(***************************************************************************)
C14_EvaluationOnlyReads ==
    hostPc = "idle" /\ hostPc' = "returned"
        /\ call'.fn \in {"execute", "executeCondition"}
    => /\ subscriptionCache' = subscriptionCache
       /\ testCache' = testCache
       /\ compositionObjs' = compositionObjs
       /\ useTestCache' = useTestCache
       /\ call'.fn = "execute"
          => call'.result = execute(SelectedCache, compositionObjs, call'.conditions,
                                    call'.mode)
       /\ call'.fn = "executeCondition"
          => call'.result = executeCondition(SelectedCache, call'.object, call'.key,
                                             call'.operation, call'.values)

C14_CollaboratorsAreOnlyRead == [][C14_EvaluationOnlyReads]_vars

\* The evaluator was constructed on an empty cache and an empty entity set;
\* the host has since put B and then A into the entity set and the value 1
\* for A into the live cache, and 'any' equalTo 1 returns true.
C14_Witness ==
    /\ ReturnedFrom("execute")
    /\ ~useTestCache
    /\ compositionObjs = <<"B", "A">>
    /\ HasField(subscriptionCache, "A", FieldKey)
    /\ subscriptionCache["A"][FieldKey] = Num(1)
    /\ ~HasField(subscriptionCache, "B", FieldKey)
    /\ call.conditions = Conditions(<<Condition("any", "equalTo", <<Num(1)>>)>>)
    /\ IsTrue(call.result)

(***************************************************************************)
(* C15: in the modes 'any' and 'all' the order does not matter: execute    *)
(* returns the same result on every permutation of the condition list,     *)
(* and a fan-out condition gets the same value and the same defined or     *)
(* undefined status in every iteration order of the entity set.            *)
(***************************************************************************)
IndexOrders(n) ==
    {p \in [1..n -> 1..n] : \A i, j \in 1..n : i # j => p[i] # p[j]}

Reordered(list, p) == [i \in 1..Len(list) |-> list[p[i]]]

\* The value and the status a fan-out condition gets over the entities in
\* the order objIds.
FanOut(objIds, condition) ==
    [value |-> Evaluate(ActiveCache, objIds, Accumulator, condition).conditionValue,
     defined |-> Evaluate(ActiveCache, objIds, Accumulator, condition).conditionDefined]

C15_OrderDoesNotMatter ==
    ReturnedFrom("execute") /\ call.mode \in {"any", "all"}
    => /\ \A p \in IndexOrders(Len(CallList)) :
             execute(ActiveCache, compositionObjs, Conditions(Reordered(CallList, p)),
                     call.mode) = call.result
       /\ \A i \in DOMAIN CallList :
             IsFanOut(CallList[i])
             => \A q \in IndexOrders(Len(compositionObjs)) :
                   FanOut(Reordered(compositionObjs, q), CallList[i])
                   = FanOut(compositionObjs, CallList[i])

====
